---------------------------- MODULE Spec2Model ----------------------------
(***************************************************************************)
(* Background ingestion pipeline of dashboard.py: the MQTT worker thread   *)
(* (mqtt_worker and its callbacks), the two queues it feeds, the cached    *)
(* publisher, and one Streamlit script run (process_incoming_data,         *)
(* process_device_responses, the header's status read).                    *)
(*                                                                         *)
(* Time is counted in fractions of a second (UnitsPerSecond units per      *)
(* second) because datetime.now() carries sub-second precision while the   *)
(* receipt time is stored through strftime("%H:%M:%S").                    *)
(***************************************************************************)
EXTENDS Integers, Sequences, FiniteSets, TLC

(* ------------------------------ bounds -------------------------------- *)
\* messages the broker delivers to _on_message in one behaviour
MaxMsgs == 2
\* clock advances in one behaviour
MaxAdvances == 2
\* resolution of the model clock
UnitsPerSecond == 4
\* publishes after which the user presses no further button
MaxPublished == 2

(* ------------------------- program constants -------------------------- *)
maxlen == 100
StaleAfter == 30
TOPIC_DATA == "projek/asma/data_sensor"
TOPIC_COMMAND == "projek/asma/command"
TOPIC_RESPONSE == "projek/asma/response"
TOPIC_PREDICTION == "projek/asma/prediction"
\* a topic the worker never subscribes to
TOPIC_OTHER == "projek/asma/other"
Topics == {TOPIC_DATA, TOPIC_RESPONSE, TOPIC_OTHER}

SecondsPerDay == 24 * 60 * 60
DayUnits == SecondsPerDay * UnitsPerSecond

(* --------------------------- JSON values ------------------------------ *)
\* A JSON value is a pair <<tag, n>>: a number, null, a non-numeric string,
\* or the marker of a key that is missing from the object.
Num(n) == <<"num", n>>
None == <<"null", 0>>
Str == <<"str", 0>>
Absent == <<"absent", 0>>
IsNum(v) == v[1] = "num"

\* a lookup that ignores its default
Get_without_default(v, default) == v

\* dict.get(key, default)
Get(v, default) == IF v = Absent THEN default ELSE v

\* Python truthiness of a value (None and 0 are falsy, a non-empty string is truthy)
Truthy(v) == (v[1] = "str") \/ (v[1] = "num" /\ v[2] # 0)

NoEnv == [present |-> FALSE, temp |-> Absent, humid |-> Absent]
Env(t, h) == [present |-> TRUE, temp |-> t, humid |-> h]

\* a decoded sensor payload: dict says whether the JSON document is an object
Flat(s, l, a, w) ==
    [dict |-> TRUE, suhu |-> s, lembab |-> l, local_aqi |-> a,
     weather_aqi |-> w, environment |-> NoEnv]

\* the session's initial sensor_data
InitialSensorData == Flat(Num(0), Num(0), Num(0), None)

\* a JSON document that is not an object, e.g. [1, 2]
NotADict ==
    [dict |-> FALSE, suhu |-> Absent, lembab |-> Absent, local_aqi |-> Absent,
     weather_aqi |-> Absent, environment |-> NoEnv]

\* the legacy shape of a flat payload: temperature and humidity move into
\* the nested environment object {temp, humid}
legacy_wrap(P) ==
    [P EXCEPT !.suhu = Absent, !.lembab = Absent,
              !.environment = [present |-> TRUE, temp |-> P.suhu, humid |-> P.lembab]]

\* sensor payloads a device may publish
Calm == Flat(Num(22), Num(50), Num(40), Absent)
Alarming == Flat(Num(36), Num(85), Num(250), Num(120))
Legacy == [Flat(Absent, Absent, Num(150), Absent) EXCEPT !.environment = Env(Num(36), Num(20))]
NullSuhu == Flat(None, Num(50), Num(40), Absent)
BadWeather == Flat(Num(22), Num(50), Num(40), Str)
\* a legacy payload whose nested temperature is null
NullTemp == [Flat(Absent, Absent, Num(40), Absent) EXCEPT !.environment = Env(None, Num(50))]
\* a payload without temperature, humidity and AQI fields
Bare == Flat(Absent, Absent, Absent, Absent)
Payloads == {Calm, Alarming, Legacy, NullSuhu, BadWeather, NotADict, NullTemp, Bare}

\* what a device publishes in one session: the current firmware, the legacy
\* firmware next to it, and two kinds of faulty device
Wires ==
    { {Calm, Alarming}, {Calm, Legacy}, {Alarming, NullSuhu, NotADict},
      {Calm, BadWeather} }

\* device responses (calibration, set_city acknowledgements), with the
\* receipt time the worker attaches
Ack(k) == [dict |-> TRUE, kind |-> k]
ResponseDocs == {Ack("calibrated"), Ack("city_set")}

\* raw message bodies: a JSON document, or bytes json.loads rejects
Garbage == [json |-> FALSE, doc |-> NotADict]
Json(p) == [json |-> TRUE, doc |-> p]

(* ------------------------ extract_sensor_values ----------------------- *)
extract_throws(data) == ~data.dict

\* an extraction that reads the flat fields only
extract_flat_only(data) ==
    [suhu |-> Get(data.suhu, Num(0)),
     lembab |-> Get(data.lembab, Num(0)),
     local_aqi |-> Get(data.local_aqi, Num(0))]

extract_sensor_values(data) ==
    LET suhu0 == Get(data.suhu, Num(0))
        lembab0 == Get(data.lembab, Num(0))
        local_aqi == Get(data.local_aqi, Num(0))
        env == data.environment
    IN  [suhu |-> IF env.present THEN Get(env.temp, suhu0) ELSE suhu0,
         lembab |-> IF env.present THEN Get(env.humid, lembab0) ELSE lembab0,
         local_aqi |-> local_aqi]

(* ------------------------ logger.sensor_data -------------------------- *)
\* the category helpers compare their argument with numbers
sensor_data_log_throws(suhu, lembab, aqi) ==
    ~(IsNum(suhu) /\ IsNum(lembab) /\ IsNum(aqi))

(* ----------------------------- check_alerts --------------------------- *)
check_alerts_throws(data) ==
    LET local_aqi == Get(data.local_aqi, Num(0))
        suhu == Get(data.suhu, Num(0))
        lembab == Get(data.lembab, Num(0))
        weather_aqi == Get(data.weather_aqi, Num(0))
    IN  \/ ~data.dict
        \/ ~IsNum(local_aqi)
        \/ (Truthy(weather_aqi) /\ ~IsNum(weather_aqi))
        \/ ~IsNum(suhu)
        \/ ~IsNum(lembab)

\* an evaluator whose thresholds include the limit itself
check_alerts_inclusive(data) ==
    LET local_aqi == Get(data.local_aqi, Num(0))[2]
        suhu == Get(data.suhu, Num(0))[2]
        lembab == Get(data.lembab, Num(0))[2]
        weather_aqi == Get(data.weather_aqi, Num(0))
        a1 == IF local_aqi >= 200 THEN << <<"danger", "aqi">> >>
              ELSE IF local_aqi >= 100 THEN << <<"warning", "aqi">> >>
              ELSE << >>
        a2 == IF Truthy(weather_aqi) /\ weather_aqi[2] >= 100
              THEN << <<"info", "weather_aqi">> >> ELSE << >>
        a3 == IF suhu >= 35 THEN << <<"warning", "suhu">> >> ELSE << >>
        a4 == IF lembab >= 80 THEN << <<"warning", "lembab_high">> >>
              ELSE IF lembab <= 30 THEN << <<"warning", "lembab_low">> >>
              ELSE << >>
    IN  a1 \o a2 \o a3 \o a4

\* an evaluator whose rules are all plain ifs
check_alerts_no_elif(data) ==
    LET local_aqi == Get(data.local_aqi, Num(0))[2]
        suhu == Get(data.suhu, Num(0))[2]
        lembab == Get(data.lembab, Num(0))[2]
        weather_aqi == Get(data.weather_aqi, Num(0))
        a0 == IF local_aqi > 200 THEN << <<"danger", "aqi">> >> ELSE << >>
        a1 == IF local_aqi > 100 THEN << <<"warning", "aqi">> >> ELSE << >>
        a2 == IF Truthy(weather_aqi) /\ weather_aqi[2] > 100
              THEN << <<"info", "weather_aqi">> >> ELSE << >>
        a3 == IF suhu > 35 THEN << <<"warning", "suhu">> >> ELSE << >>
        a4 == IF lembab > 80 THEN << <<"warning", "lembab_high">> >> ELSE << >>
        a5 == IF lembab < 30 THEN << <<"warning", "lembab_low">> >> ELSE << >>
    IN  a0 \o a1 \o a2 \o a3 \o a4 \o a5

check_alerts(data) ==
    LET local_aqi == Get(data.local_aqi, Num(0))[2]
        suhu == Get(data.suhu, Num(0))[2]
        lembab == Get(data.lembab, Num(0))[2]
        weather_aqi == Get(data.weather_aqi, Num(0))
        a1 == IF local_aqi > 200 THEN << <<"danger", "aqi">> >>
              ELSE IF local_aqi > 100 THEN << <<"warning", "aqi">> >>
              ELSE << >>
        a2 == IF Truthy(weather_aqi) /\ weather_aqi[2] > 100
              THEN << <<"info", "weather_aqi">> >> ELSE << >>
        a3 == IF suhu > 35 THEN << <<"warning", "suhu">> >> ELSE << >>
        a4 == IF lembab > 80 THEN << <<"warning", "lembab_high">> >>
              ELSE IF lembab < 30 THEN << <<"warning", "lembab_low">> >>
              ELSE << >>
    IN  a1 \o a2 \o a3 \o a4


(* ------------------------------ time ---------------------------------- *)
\* datetime.now(wib).strftime("%H:%M:%S"): the time of day in whole seconds;
\* the date and the fraction of the second are not kept
strftime(t) == (t % DayUnits) \div UnitsPerSecond

Never == <<"Never", 0>>
Ts(s) == <<"ts", s>>

\* (now - last_time).total_seconds(), in clock units, where last_time is the
\* parsed HH:MM:SS placed on the calendar day of now
time_diff(t, ts) == (t % DayUnits) - ts * UnitsPerSecond

\* the clock advances by 0.75 s or 29.5 s (for the default resolution)
AdvanceSteps == {UnitsPerSecond - 1, StaleAfter * UnitsPerSecond - 2}

\* the session starts at 12:00:00 or at 23:59:50
StartNoon == 12 * 60 * 60 * UnitsPerSecond
StartLate == (SecondsPerDay - 10) * UnitsPerSecond

(* ------------------------- the loaded artifacts ----------------------- *)
\* load_ml_model: without a model there is no scaler and no label encoder;
\* the model may or may not expose predict_proba
MLConfigs ==
    {[model |-> "none", scaler |-> FALSE, encoder |-> FALSE]}
    \cup [model : {"plain", "proba"}, scaler : BOOLEAN, encoder : BOOLEAN]

\* classes the classifier may return, and the maximal class probability
\* (in percent) it may report
RawClasses == 0 .. 3
ProbaMax == {40, 100}

\* classes_ of the label encoder: raw class c decodes to LabelClasses[c + 1]
LabelClasses == <<"AMAN", "BAHAYA", "HATI-HATI", "SEDANG">>
inverse_transform(raw) == LabelClasses[raw + 1]

text_map(t) ==
    CASE t = "AMAN" -> "Aman"
      [] t = "HATI-HATI" -> "Waspada"
      [] t = "BAHAYA" -> "Bahaya"
      [] OTHER -> t

\* label_map.get(pred_label) without the default
label_map_no_default(raw) ==
    CASE raw = 0 -> "Aman"
      [] raw = 1 -> "Waspada"
      [] raw = 2 -> "Bahaya"
      [] OTHER -> "None"

label_map(raw) ==
    CASE raw = 0 -> "Aman"
      [] raw = 1 -> "Waspada"
      [] raw = 2 -> "Bahaya"
      [] OTHER -> "Unknown"

\* the feature matrix X: n counts the passes through the scaler
Features(suhu, lembab, aqi) == [n |-> 0, v |-> <<suhu, lembab, aqi>>]
transform(X) == [X EXCEPT !.n = @ + 1]

\* what the artifacts do on one classification: the step that throws (if
\* any), the raw class and the maximal probability
Stages == {"none", "scale", "predict", "decode", "proba"}
MLOutcomes ==
    [fail : {"none"}, raw : RawClasses, pmax : ProbaMax]
    \cup [fail : Stages \ {"none"}, raw : {0}, pmax : {100}]

Call(op, X) == [op |-> op, x |-> X]


(* ---------------------------- classification -------------------------- *)
\* the steps that exist for a configuration and so may throw
PossibleFails(cfg) ==
    {"none", "predict"}
    \cup (IF cfg.scaler THEN {"scale"} ELSE {})
    \cup (IF cfg.encoder THEN {"decode"} ELSE {})
    \cup (IF cfg.model = "proba" THEN {"proba"} ELSE {})

\* a try block that never calls the scaler's result into use
scaled_skip(cfg, X) == X

\* the scaling step of the try block: X after the optional scaler
scaled(cfg, X) == IF cfg.scaler THEN transform(X) ELSE X

\* an except branch that only logs
error_result_unset == [status |-> "N/A", confidence |-> None]

\* what the except branch stores
error_result == [status |-> "Error", confidence |-> None]

\* the body of the try block up to the assignment of ml_prediction:
\* thrown tells whether a step threw, calls lists the calls that were handed
\* the feature matrix (scaler and model), in order, with the matrix
classify(cfg, suhu, lembab, aqi, out) ==
    LET X0 == Features(suhu, lembab, aqi)
        X == scaled(cfg, X0)
        c1 == IF cfg.scaler THEN <<Call("transform", X0)>> ELSE <<>>
        c2 == c1 \o <<Call("predict", X)>>
        c3 == IF cfg.model = "proba" THEN c2 \o <<Call("predict_proba", X)>> ELSE c2
        pred_text == IF cfg.encoder THEN text_map(inverse_transform(out.raw))
                     ELSE label_map(out.raw)
        confidence == IF cfg.model = "proba" THEN Num(out.pmax) ELSE None
    IN  CASE out.fail = "scale" -> [thrown |-> TRUE, calls |-> c1, status |-> error_result.status,
                                   confidence |-> error_result.confidence]
          [] out.fail = "predict" -> [thrown |-> TRUE, calls |-> c2, status |-> error_result.status,
                                   confidence |-> error_result.confidence]
          [] out.fail = "decode" -> [thrown |-> TRUE, calls |-> c2, status |-> error_result.status,
                                   confidence |-> error_result.confidence]
          [] out.fail = "proba" -> [thrown |-> TRUE, calls |-> c3, status |-> error_result.status,
                                   confidence |-> error_result.confidence]
          [] OTHER -> [thrown |-> FALSE, calls |-> c3, status |-> pred_text, confidence |-> confidence]

(* ------------------------------- state -------------------------------- *)
VARIABLES
    now,                  \* datetime.now(wib), in clock units
    advances,             \* clock advances left in this behaviour
    nmsgs,                \* messages the broker still delivers in this behaviour
    ml,                   \* ml_model, ml_scaler, ml_label_encoder as loaded
    wire,                 \* the sensor payloads the device of this session publishes
    clicks,               \* the control-panel buttons the user presses in this session
    faulty,               \* whether a send may throw in this session
    wpc,                  \* mqtt_worker: "connect", "loop" (in loop_forever), "sleep"
    link,                 \* the worker client's session: "down", "handshake", "rejected", "up"
    subs,                 \* topics the worker client is subscribed to
    mqtt_connected,       \* st.session_state.mqtt_connected
    in_q,                 \* st.session_state.mqtt_in_q
    response_q,           \* st.session_state.device_response_q
    sensor_data,          \* st.session_state.sensor_data
    last_update,          \* st.session_state.last_update
    last_update_at,       \* history variable: clock reading when last_update's message was received
    data_history,         \* st.session_state.data_history
    alerts,               \* st.session_state.alerts
    ml_prediction,        \* st.session_state.ml_prediction
    ml_calls,             \* history variable: outcome and calls of the last classification
    last_device_response, \* st.session_state.last_device_response
    publisher,            \* get_mqtt_publisher's cache: "none", "started", "unconnected"
    published,            \* publishes that did not throw: their number and the last one
    sent_ok,              \* what the last send_..._to_esp32 call returned (FALSE before the first)
    pc,                   \* the script run: "idle", "drain", "responses", "render"
    data_received,        \* the local of process_incoming_data
    drained               \* history variable: the current tick has taken an item from in_q

clock == <<now, advances>>
worker == <<wpc, link, subs>>
queues == <<in_q, response_q>>
owned == <<sensor_data, data_history, alerts, ml_prediction>>
tickstate == <<sensor_data, last_update, last_update_at, data_history, alerts, ml_prediction, ml_calls>>
pub == <<publisher, published, sent_ok>>
vars == <<now, advances, nmsgs, ml, wire, clicks, faulty, wpc, link, subs, mqtt_connected, in_q, response_q,
          sensor_data, last_update, last_update_at, data_history, alerts, ml_prediction,
          ml_calls, last_device_response, publisher, published, sent_ok, pc, data_received,
          drained>>

\* a deque without maxlen
deque_append_unbounded(d, x) == Append(d, x)

\* deque(maxlen=100).append
deque_append(d, x) == IF Len(d) = maxlen THEN Tail(d) \o <<x>> ELSE Append(d, x)

EmptyHistory == [time |-> <<>>, suhu |-> <<>>, lembab |-> <<>>, aqi |-> <<>>]

\* a session whose window already holds k identical readings
Prefilled(k, t) ==
    [time |-> [i \in 1 .. k |-> t], suhu |-> [i \in 1 .. k |-> Num(0)],
     lembab |-> [i \in 1 .. k |-> Num(0)], aqi |-> [i \in 1 .. k |-> Num(0)]]

NoCalls == [thrown |-> FALSE, calls |-> <<>>]
\* last_device_response before any response was drained
NoResponse == [ts |-> -1, payload |-> Ack("none")]
NothingPublished ==
    [n |-> 0, last |-> [topic |-> "", cmd |-> "", status |-> "", confidence |-> 0]]

InitWith(start, configs, wires, history, msgs, steps, buttons, faults) ==
    /\ now = start
    /\ advances = steps
    /\ nmsgs = msgs
    /\ ml \in configs
    /\ wire \in wires
    /\ clicks = buttons
    /\ faulty \in faults
    /\ wpc = "connect"
    /\ link = "down"
    /\ subs = {}
    /\ mqtt_connected = FALSE
    /\ in_q = <<>>
    /\ response_q = <<>>
    /\ sensor_data = InitialSensorData
    /\ last_update = Never
    /\ last_update_at = start
    /\ data_history = history
    /\ alerts = <<>>
    /\ ml_prediction = [status |-> "N/A", confidence |-> None]
    /\ ml_calls = NoCalls
    /\ last_device_response = NoResponse
    /\ publisher = "none"
    /\ published = NothingPublished
    /\ sent_ok = FALSE
    /\ pc = "idle"
    /\ data_received = FALSE
    /\ drained = FALSE

\* a session whose user only watches, and in which no send throws
InitAt(start, configs, wires, history, msgs, steps) ==
    InitWith(start, configs, wires, history, msgs, steps, {}, {FALSE})

NoModel == [model |-> "none", scaler |-> FALSE, encoder |-> FALSE]

\* a fresh session at noon without a model file
Init == InitAt(StartNoon, {NoModel}, Wires, EmptyHistory, MaxMsgs, MaxAdvances)


(* --------------------------- the MQTT worker -------------------------- *)
\* an except branch that leaves the loop: the thread ends
worker_except_break ==
    /\ mqtt_connected' = FALSE
    /\ wpc' = "done"

\* the except branch of the worker's while True loop
worker_except ==
    /\ mqtt_connected' = FALSE
    /\ wpc' = "sleep"

\* client.connect(broker, port): the session is opened, or the call raises
WorkerConnect ==
    /\ wpc = "connect"
    /\ \E ok \in BOOLEAN :
          IF ok
          THEN /\ wpc' = "loop"
               /\ link' = "handshake"
               /\ subs' = {}
               /\ UNCHANGED mqtt_connected
          ELSE /\ worker_except
               /\ link' = "down"
               /\ subs' = {}
    /\ UNCHANGED <<clock, nmsgs, ml, wire, clicks, faulty, queues, tickstate, last_device_response, pub,
                   pc, data_received, drained>>

\* time.sleep(3) is over: back to the top of the loop
WorkerWake ==
    /\ wpc = "sleep"
    /\ wpc' = "connect"
    /\ UNCHANGED <<clock, nmsgs, ml, wire, clicks, faulty, link, subs, mqtt_connected, queues, tickstate,
                   last_device_response, pub, pc, data_received, drained>>

\* a callback whose else branch only logs
_on_connect_reject_logs(rc) ==
    IF rc = 0
    THEN /\ subs' = subs \cup {TOPIC_DATA, TOPIC_RESPONSE}
         /\ mqtt_connected' = TRUE
    ELSE /\ subs' = subs
         /\ UNCHANGED mqtt_connected

_on_connect(rc) ==
    IF rc = 0
    THEN /\ subs' = subs \cup {TOPIC_DATA, TOPIC_RESPONSE}
         /\ mqtt_connected' = TRUE
    ELSE /\ subs' = subs
         /\ mqtt_connected' = FALSE

\* the broker answers the handshake with return code rc
OnConnect ==
    /\ wpc = "loop"
    /\ link = "handshake"
    /\ \E rc \in {0, 5} :
          /\ _on_connect(rc)
          /\ link' = IF rc = 0 THEN "up" ELSE "rejected"
    /\ UNCHANGED <<clock, nmsgs, ml, wire, clicks, faulty, wpc, queues, tickstate, last_device_response, pub,
                   pc, data_received, drained>>

_on_disconnect ==
    mqtt_connected' = FALSE

\* the session ends: network error, broker-initiated disconnect, or the
\* broker closing the connection after a rejected handshake
OnDisconnect ==
    /\ wpc = "loop"
    /\ link \in {"handshake", "rejected", "up"}
    /\ _on_disconnect
    /\ link' = "down"
    /\ subs' = {}
    /\ UNCHANGED <<clock, nmsgs, ml, wire, clicks, faulty, wpc, queues, tickstate, last_device_response, pub,
                   pc, data_received, drained>>

\* loop_forever reconnects a lost session by itself
LoopReconnect ==
    /\ wpc = "loop"
    /\ link = "down"
    /\ link' = "handshake"
    /\ UNCHANGED <<clock, nmsgs, ml, wire, clicks, faulty, wpc, subs, mqtt_connected, queues, tickstate,
                   last_device_response, pub, pc, data_received, drained>>

\* loop_forever raises: the except branch runs
LoopRaises ==
    /\ wpc = "loop"
    /\ worker_except
    /\ link' = "down"
    /\ subs' = {}
    /\ UNCHANGED <<clock, nmsgs, ml, wire, clicks, faulty, queues, tickstate, last_device_response, pub,
                   pc, data_received, drained>>

\* loop_forever returns without raising, which the client does only after
\* it reported the end of the session through the disconnect callback: the
\* while loop starts over at once
LoopReturns ==
    /\ wpc = "loop"
    /\ link = "down"
    /\ wpc' = "connect"
    /\ link' = "down"
    /\ subs' = {}
    /\ UNCHANGED <<clock, nmsgs, ml, wire, clicks, faulty, mqtt_connected, queues, tickstate,
                   last_device_response, pub, pc, data_received, drained>>

\* the queued item; at is a history variable, the clock reading at receipt
Item(t, data) == [ts |-> strftime(t), payload |-> data, at |-> t]
ResponseItem(t, data) == [ts |-> strftime(t), payload |-> data]

\* a callback that routes every decodable message that is not sensor data to
\* the response queue
_on_message_else(topic, body) ==
    /\ UNCHANGED <<tickstate, mqtt_connected>>
    /\ IF ~body.json
       THEN UNCHANGED queues
       ELSE IF topic = TOPIC_DATA
       THEN /\ in_q' = Append(in_q, Item(now, body.doc))
            /\ UNCHANGED response_q
       ELSE /\ response_q' = Append(response_q, ResponseItem(now, body.doc))
            /\ UNCHANGED in_q

\* a callback that writes the session state itself, as the legacy on_message does
_on_message_direct(topic, body) ==
    /\ UNCHANGED <<queues, mqtt_connected, last_update_at, data_history, alerts,
                   ml_prediction, ml_calls>>
    /\ IF body.json /\ topic = TOPIC_DATA
       THEN /\ sensor_data' = body.doc
            /\ last_update' = Ts(strftime(now))
       ELSE UNCHANGED <<sensor_data, last_update>>

\* a callback that puts a sensor message at the front of its queue
_on_message_front(topic, body) ==
    /\ UNCHANGED <<tickstate, mqtt_connected>>
    /\ IF ~body.json
       THEN UNCHANGED queues
       ELSE IF topic = TOPIC_DATA
       THEN /\ in_q' = <<Item(now, body.doc)>> \o in_q
            /\ UNCHANGED response_q
       ELSE IF topic = TOPIC_RESPONSE
       THEN /\ response_q' = Append(response_q, ResponseItem(now, body.doc))
            /\ UNCHANGED in_q
       ELSE UNCHANGED queues

\* the callback touches the two queues only
_on_message(topic, body) ==
    /\ UNCHANGED <<tickstate, mqtt_connected>>
    /\ IF ~body.json
       THEN UNCHANGED queues
       ELSE IF topic = TOPIC_DATA
       THEN /\ in_q' = Append(in_q, Item(now, body.doc))
            /\ UNCHANGED response_q
       ELSE IF topic = TOPIC_RESPONSE
       THEN /\ response_q' = Append(response_q, ResponseItem(now, body.doc))
            /\ UNCHANGED in_q
       ELSE UNCHANGED queues

\* what may arrive on a topic
BodiesOn(topic) ==
    {Garbage} \cup
    (IF topic = TOPIC_DATA THEN {Json(d) : d \in wire}
     ELSE IF topic = TOPIC_RESPONSE THEN {Json(d) : d \in ResponseDocs}
     ELSE {Json(Ack("other"))})

\* the broker delivers a message with this topic and body to the worker's client
Deliver(topic, body) ==
    /\ wpc = "loop"
    /\ link = "up"
    /\ nmsgs > 0
    /\ nmsgs' = nmsgs - 1
    /\ _on_message(topic, body)
    /\ UNCHANGED <<clock, ml, wire, clicks, faulty, worker, last_device_response, pub, pc, data_received, drained>>

OnMessage ==
    \E topic \in Topics : \E body \in BodiesOn(topic) : Deliver(topic, body)


(* ---------------------------- the publisher --------------------------- *)
\* get_mqtt_publisher (st.cache_resource): the client is built on the first
\* call only; its connect may fail, and the client is cached either way
\* a publisher that is built and connected anew on every call
get_mqtt_publisher_uncached(p) == p \in {"started", "unconnected"}

get_mqtt_publisher(p) ==
    IF publisher = "none" THEN p \in {"started", "unconnected"} ELSE p = publisher

\* int(confidence) if confidence else 0
int_or_zero(confidence) == IF Truthy(confidence) THEN confidence[2] ELSE 0

set_status(status, confidence) ==
    [topic |-> TOPIC_COMMAND, cmd |-> "set_status", status |-> status,
     confidence |-> int_or_zero(confidence)]

\* send functions that return True after the except branch as well
send_returns_true(payload, ok) ==
    /\ \E p \in {"started", "unconnected"} :
          /\ get_mqtt_publisher(p)
          /\ publisher' \in (IF ok THEN {p} ELSE {p, publisher})
    /\ published' = IF ok
                    THEN [n |-> published.n + 1, last |-> payload]
                    ELSE published
    /\ sent_ok' = TRUE

\* the body of both send functions: ok tells that nothing in the try block
\* threw; a throw inside get_mqtt_publisher leaves nothing cached; the
\* function returns True at the end of the try block and False after the
\* except branch
send(payload, ok) ==
    /\ \E p \in {"started", "unconnected"} :
          /\ get_mqtt_publisher(p)
          /\ publisher' \in (IF ok THEN {p} ELSE {p, publisher})
    /\ published' = IF ok
                    THEN [n |-> published.n + 1, last |-> payload]
                    ELSE published
    /\ sent_ok' = ok

\* send_ml_prediction_to_esp32: ok is whether nothing threw
send_ml_prediction_to_esp32(status, confidence, ok) ==
    send(set_status(status, confidence), ok)

\* the commands of the control panel that the model's user can press
Commands == {"calibrate", "restart"}

\* {"cmd": command}
command_payload(command) ==
    [topic |-> TOPIC_COMMAND, cmd |-> command, status |-> "", confidence |-> 0]

\* a send that goes through the worker's client and needs its session
send_command_over_worker(command, ok) ==
    /\ link = "up"
    /\ send(command_payload(command), ok)

\* send_command_to_esp32: ok is whether nothing threw
send_command_to_esp32(command, ok) ==
    send(command_payload(command), ok)

\* what the try block of a send function may do in this session
SendOutcomes == IF faulty THEN BOOLEAN ELSE {TRUE}

(* --------------------------- the script run --------------------------- *)
\* st_autorefresh reruns the script; process_incoming_data starts
Rerun ==
    /\ pc = "idle"
    /\ pc' = "drain"
    /\ data_received' = FALSE
    /\ drained' = FALSE
    /\ UNCHANGED <<clock, nmsgs, ml, wire, clicks, faulty, worker, mqtt_connected, queues, tickstate,
                   last_device_response, pub>>

\* a loop body that enters the ML block without looking at ml_model
ml_model_unchecked == TRUE

\* if ml_model is not None
ml_model_is_not_None == ml.model # "none"

\* the ML block of the loop body, run when a model is loaded
ml_block(suhu, lembab, aqi) ==
    \E out \in MLOutcomes :
       /\ out.fail \in PossibleFails(ml)
       /\ LET r == classify(ml, suhu, lembab, aqi, out)
          IN  /\ ml_prediction' = [status |-> r.status, confidence |-> r.confidence]
              /\ ml_calls' = [thrown |-> r.thrown, calls |-> r.calls]
              /\ IF r.thrown
                 THEN UNCHANGED pub
                 ELSE \E ok \in SendOutcomes :
                         send_ml_prediction_to_esp32(r.status, r.confidence, ok)

\* one iteration of the while loop of process_incoming_data
DrainItem ==
    /\ pc = "drain"
    /\ in_q # <<>>
    /\ LET item == Head(in_q)
           data == item.payload
           x == extract_sensor_values(data)
           appended == ~extract_throws(data)
           logged == appended /\ ~sensor_data_log_throws(x.suhu, x.lembab, x.local_aqi)
           completed == logged /\ ~check_alerts_throws(data)
       IN  /\ in_q' = Tail(in_q)
           /\ sensor_data' = data
           /\ last_update' = Ts(item.ts)
           /\ last_update_at' = item.at
           /\ data_history' =
                 IF appended
                 THEN [time |-> deque_append(data_history.time, now),
                       suhu |-> deque_append(data_history.suhu, x.suhu),
                       lembab |-> deque_append(data_history.lembab, x.lembab),
                       aqi |-> deque_append(data_history.aqi, x.local_aqi)]
                 ELSE data_history
           /\ IF logged /\ ml_model_is_not_None
              THEN ml_block(x.suhu, x.lembab, x.local_aqi)
              ELSE UNCHANGED <<ml_prediction, ml_calls, pub>>
           /\ alerts' = IF completed THEN check_alerts(data) ELSE alerts
           /\ data_received' = (completed \/ data_received)
           /\ drained' = TRUE
           /\ mqtt_connected' = (completed \/ mqtt_connected)
    /\ UNCHANGED <<clock, nmsgs, ml, wire, clicks, faulty, worker, response_q, last_device_response, pc>>

\* the check with its two tests in the other order
staleness_check_received_first ==
    IF last_update # Never
    THEN IF data_received
         THEN mqtt_connected' = TRUE
         ELSE IF time_diff(now, last_update[2]) > StaleAfter * UnitsPerSecond
         THEN mqtt_connected' = FALSE
         ELSE UNCHANGED mqtt_connected
    ELSE UNCHANGED mqtt_connected

\* the staleness check that ends process_incoming_data
staleness_check ==
    IF last_update # Never
    THEN IF time_diff(now, last_update[2]) > StaleAfter * UnitsPerSecond
         THEN mqtt_connected' = FALSE
         ELSE IF data_received
         THEN mqtt_connected' = TRUE
         ELSE UNCHANGED mqtt_connected
    ELSE UNCHANGED mqtt_connected

\* the queue is empty: the loop ends, the staleness check runs, the tick returns
TickFinish ==
    /\ pc = "drain"
    /\ in_q = <<>>
    /\ staleness_check
    /\ pc' = "responses"
    /\ UNCHANGED <<clock, nmsgs, ml, wire, clicks, faulty, worker, queues, tickstate, last_device_response, pub,
                   data_received, drained>>

\* a loop that stores a response only while none is stored yet
DrainResponseKeepFirst ==
    /\ pc = "responses"
    /\ response_q # <<>>
    /\ last_device_response' =
          IF last_device_response = NoResponse THEN Head(response_q) ELSE last_device_response
    /\ response_q' = Tail(response_q)
    /\ UNCHANGED <<clock, nmsgs, ml, wire, clicks, faulty, worker, mqtt_connected, in_q, tickstate,
                   pub, pc, data_received, drained>>

\* one iteration of the while loop of process_device_responses
DrainResponse ==
    /\ pc = "responses"
    /\ response_q # <<>>
    /\ last_device_response' = Head(response_q)
    /\ response_q' = Tail(response_q)
    /\ UNCHANGED <<clock, nmsgs, ml, wire, clicks, faulty, worker, mqtt_connected, in_q, tickstate, pub,
                   pc, data_received, drained>>

\* process_device_responses returns
ResponsesDone ==
    /\ pc = "responses"
    /\ response_q = <<>>
    /\ pc' = "render"
    /\ UNCHANGED <<clock, nmsgs, ml, wire, clicks, faulty, worker, mqtt_connected, queues, tickstate,
                   last_device_response, pub, data_received, drained>>

\* what the header shows when it reads the flag
status_text == IF mqtt_connected THEN "ONLINE" ELSE "OFFLINE"

\* the rest of the script runs: the header reads the flag, and the handler
\* of a button the user pressed sends its command; the run ends
Render ==
    /\ pc = "render"
    /\ pc' = "idle"
    /\ \/ UNCHANGED pub
       \/ /\ published.n < MaxPublished
          /\ \E command \in clicks : \E ok \in SendOutcomes :
                send_command_to_esp32(command, ok)
    /\ UNCHANGED <<clock, nmsgs, ml, wire, clicks, faulty, worker, mqtt_connected, queues, tickstate,
                   last_device_response, data_received, drained>>

\* time passes between two script runs (a run is short against the steps
\* of the clock)
Advance ==
    /\ pc = "idle"
    /\ advances > 0
    /\ advances' = advances - 1
    /\ \E d \in AdvanceSteps : now' = now + d
    /\ UNCHANGED <<nmsgs, ml, wire, clicks, faulty, worker, mqtt_connected, queues, tickstate,
                   last_device_response, pub, pc, data_received, drained>>

Next ==
    \/ WorkerConnect
    \/ WorkerWake
    \/ OnConnect
    \/ OnDisconnect
    \/ LoopReconnect
    \/ LoopRaises
    \/ LoopReturns
    \/ OnMessage
    \/ Rerun
    \/ DrainItem
    \/ TickFinish
    \/ DrainResponse
    \/ ResponsesDone
    \/ Render
    \/ Advance

Spec == Init /\ [][Next]_vars

(* --------------------------- specifications --------------------------- *)
\* a session whose history window is one short of full, with a faulty device
SpecFull ==
    InitAt(StartNoon, {NoModel}, {{Alarming, NullSuhu, NotADict}},
           Prefilled(maxlen - 1, StartNoon), MaxMsgs, 1)
    /\ [][Next]_vars

\* a fresh session that starts ten seconds before midnight
SpecLate ==
    InitAt(StartLate, {NoModel}, {{Calm}}, EmptyHistory, MaxMsgs, MaxAdvances)
    /\ [][Next]_vars

\* a fresh session with a model loaded, in every combination of artifacts
SpecML ==
    InitAt(StartNoon, MLConfigs \ {NoModel}, {{Alarming}}, EmptyHistory, MaxMsgs, 1)
    /\ [][Next]_vars

\* a model without scaler, label encoder and predict_proba
PlainModel == [model |-> "plain", scaler |-> FALSE, encoder |-> FALSE]

\* a session with or without a model whose user operates the control panel
\* and in which sends may throw
SpecPub ==
    InitWith(StartNoon, {NoModel, PlainModel}, {{Alarming}}, EmptyHistory, MaxMsgs, 1,
             Commands, {TRUE})
    /\ [][Next]_vars

\* devices that publish one reading on or next to the alert thresholds
ThresholdWires ==
    { {Flat(Num(t), Num(h), Num(a), w)} :
        t \in {35, 36}, h \in {29, 30, 80, 81}, a \in {100, 101, 200, 201},
        w \in {Absent, Num(0), Num(100), Num(101)} }

\* the readings of these devices
ThresholdReadings == (UNION ThresholdWires) \cup {Calm, Alarming}

\* fresh sessions at noon without a model, one per threshold reading
SpecAlerts ==
    InitAt(StartNoon, {NoModel}, ThresholdWires \cup {{Calm}, {Alarming}}, EmptyHistory, 1, 1)
    /\ [][Next]_vars

\* a payload that carries both shapes with different values
Mixed == [Flat(Num(22), Num(50), Num(40), Absent) EXCEPT !.environment = Env(Num(36), Num(20))]

\* flat payloads: complete ones, one without temperature, one with neither
\* temperature nor humidity
FlatPayloads ==
    {Calm, Alarming, Flat(Absent, Num(60), Num(45), Absent),
     Flat(Absent, Absent, Num(45), Absent)}

\* devices that publish a payload in both shapes, and one that mixes them
FormatWires == {{P, legacy_wrap(P)} : P \in FlatPayloads} \cup {{Mixed, Calm}}

\* fresh sessions at noon without a model, one per device of FormatWires
SpecFormats ==
    InitAt(StartNoon, {NoModel}, FormatWires, EmptyHistory, MaxMsgs, 1)
    /\ [][Next]_vars

\* devices that publish a sound reading next to a defective one: a null
\* nested temperature, a null flat temperature, a document that is no
\* object, a non-numeric weather AQI, or an object without the fields
DefectWires ==
    { {Alarming, NullTemp}, {Alarming, NullSuhu}, {Alarming, NotADict},
      {Alarming, BadWeather}, {Alarming, Bare} }

\* fresh sessions at noon without a model, one per device of DefectWires
SpecDefects ==
    InitAt(StartNoon, {NoModel}, DefectWires, EmptyHistory, MaxMsgs, 1)
    /\ [][Next]_vars

(* ------------------------------- claims -------------------------------- *)
StaleUnits == StaleAfter * UnitsPerSecond

\* the step on which process_incoming_data returns
TickReturns == pc = "drain" /\ pc' = "responses"

\* C1: after any sequence of sensor messages processed by the tick, each of
\* the four history series holds at most 100 entries and all four have the
\* same length.
C1_HistoryBounded ==
    \A k \in DOMAIN data_history :
        /\ Len(data_history[k]) <= maxlen
        /\ Len(data_history[k]) = Len(data_history.time)

\* the window is full and its two newest entries came from the tick, so the
\* oldest entry was evicted
C1_Witness ==
    /\ Len(data_history.aqi) = maxlen
    /\ data_history.aqi[maxlen - 1] # Num(0)
    /\ data_history.aqi[maxlen] # Num(0)

\* C2: whenever a tick returns while a last-update timestamp exists and more
\* than 30 seconds have passed since that message was received, the
\* connected flag is false on return.
C2_StaleTickDisconnects ==
    [][(TickReturns /\ last_update # Never /\ now - last_update_at > StaleUnits)
        => ~mqtt_connected']_vars

\* C3 as stated: a tick that drains at least one sensor message returns with
\* the connected flag true, however old the message is.
C3_DrainingTickConnects ==
    [][(TickReturns /\ drained) => mqtt_connected']_vars

\* C3 amended: a tick that processed at least one drained sensor message to
\* the end returns with the connected flag true unless the staleness check
\* finds last_update more than 30 seconds old; then it returns with the flag
\* false.
C3_ProcessedTickFollowsStaleness ==
    [][(TickReturns /\ data_received)
        => (mqtt_connected' <=> ~(time_diff(now, last_update[2]) > StaleUnits))]_vars

\* a tick has returned with a message processed, the flag false, last_update stale
C3_Witness ==
    /\ pc = "responses"
    /\ data_received
    /\ ~mqtt_connected
    /\ now - last_update_at > StaleUnits
    /\ time_diff(now, last_update[2]) > StaleUnits

\* C4: a tick that drains no sensor message and returns at most 30 seconds
\* after the last update was received (or while last_update is "Never")
\* leaves the connected flag as it was.
C4_QuietTickKeepsFlag ==
    [][(TickReturns /\ ~drained
        /\ (last_update = Never \/ now - last_update_at <= StaleUnits))
        => mqtt_connected' = mqtt_connected]_vars

(* the worker's place in the spec's state machine *)
Connecting == wpc = "connect" \/ (wpc = "loop" /\ link = "handshake")
Connected == wpc = "loop" /\ link = "up"
Disconnected == ~Connecting /\ ~Connected

\* the worker thread is scheduled, time.sleep returns, the broker closes a
\* session it rejected, and loop_forever retries a lost session
FairSpec ==
    /\ InitAt(StartNoon, {NoModel}, {{Calm}}, EmptyHistory, 1, 1)
    /\ [][Next]_vars
    /\ WF_vars(WorkerWake)
    /\ WF_vars(LoopReconnect)
    /\ WF_vars(OnDisconnect /\ link = "rejected")

\* C5: after any transport failure the worker eventually re-enters
\* Connecting and never terminates, and every entry into Connected
\* subscribes to the sensor-data topic and to the response topic.
C5_ReconnectsAndSubscribes ==
    /\ (Disconnected ~> Connecting)
    /\ [][(~Connected /\ Connected') => {TOPIC_DATA, TOPIC_RESPONSE} \subseteq subs']_vars

\* a session that delivered a message has failed: the except branch has set
\* the flag and the worker sleeps before it connects again
C5_Witness ==
    /\ wpc = "sleep"
    /\ Disconnected
    /\ ~mqtt_connected
    /\ nmsgs = 0

\* what the claim says one delivered message does to the two queues
Dispatched(topic, body) ==
    /\ in_q' = IF body.json /\ topic = TOPIC_DATA
               THEN Append(in_q, [ts |-> strftime(now), payload |-> body.doc, at |-> now])
               ELSE in_q
    /\ response_q' = IF body.json /\ topic = TOPIC_RESPONSE
                     THEN Append(response_q, [ts |-> strftime(now), payload |-> body.doc])
                     ELSE response_q
    /\ Connected'

\* C6: a delivered message is pushed onto the sensor-data queue iff it
\* decodes and its topic is the sensor-data topic, onto the response queue
\* iff it decodes and its topic is the response topic; otherwise nothing is
\* enqueued; the worker keeps running in every case.
C6_Dispatch ==
    [][\A topic \in Topics : \A body \in BodiesOn(topic) :
          Deliver(topic, body) => Dispatched(topic, body)]_vars

\* every message was delivered and nothing was drained yet: one message sits
\* on the sensor-data queue, the other one was dropped
C6_Witness ==
    /\ nmsgs = 0
    /\ Len(in_q) = 1
    /\ Len(response_q) = 0
    /\ last_update = Never
    /\ last_device_response = NoResponse

\* a step of the worker thread: the loop of mqtt_worker or one of its callbacks
CallbackStep ==
    \/ WorkerConnect
    \/ WorkerWake
    \/ OnConnect
    \/ OnDisconnect
    \/ LoopReconnect
    \/ LoopRaises
    \/ LoopReturns
    \/ OnMessage

\* C7: the worker thread never changes the history window, the current
\* reading, the alert set or the last inference result (it only enqueues and
\* sets the connected flag); those change only when the tick drains an item.
C7_OwnedByTick ==
    [][/\ CallbackStep => UNCHANGED <<owned, last_update, last_device_response, pc>>
       /\ (owned' # owned) => (pc = "drain" /\ in_q # <<>> /\ in_q' = Tail(in_q))]_vars

\* the worker has enqueued a sensor message and the session state is untouched
C7_Witness ==
    /\ in_q # <<>>
    /\ sensor_data = InitialSensorData
    /\ last_update = Never
    /\ data_history = EmptyHistory

\* the tick drains an item and the ML block of the loop body runs for it
MLRuns ==
    /\ pc = "drain"
    /\ in_q # <<>>
    /\ in_q' = Tail(in_q)
    /\ ml.model # "none"
    /\ LET data == Head(in_q).payload
           x == extract_sensor_values(data)
       IN  /\ ~extract_throws(data)
           /\ ~sensor_data_log_throws(x.suhu, x.lembab, x.local_aqi)

\* C8: if a step of scaling, prediction, label decoding or probability
\* estimation throws, the stored result is label Error without confidence,
\* the tick goes on to evaluate the alerts of that message and stays in its
\* loop for the remaining queued messages.
C8_ClassificationErrorContained ==
    [][(MLRuns /\ ml_calls'.thrown)
        => LET data == Head(in_q).payload
           IN  /\ ml_prediction' = [status |-> "Error", confidence |-> None]
               /\ pc' = "drain"
               /\ IF check_alerts_throws(data)
                  THEN alerts' = alerts
                  ELSE /\ alerts' = check_alerts(data)
                       /\ data_received'
                       /\ mqtt_connected']_vars

\* a classification has thrown: Error is stored, the alerts of the message
\* are set, and the tick is in its loop with a further message queued
C8_Witness ==
    /\ pc = "drain"
    /\ ml_calls.thrown
    /\ ml_prediction = [status |-> "Error", confidence |-> None]
    /\ sensor_data = Alarming
    /\ alerts = check_alerts(Alarming)
    /\ in_q # <<>>

Labels == {"Aman", "Waspada", "Bahaya", "Unknown", "Error"}

\* C9: every result a classification stored has a label among Aman, Waspada,
\* Bahaya, Unknown, Error, and a confidence that is absent or within 0..100.
C9_WellFormedResult ==
    ml_prediction.status # "N/A"
    => /\ ml_prediction.status \in Labels
       /\ \/ ml_prediction.confidence = None
          \/ /\ IsNum(ml_prediction.confidence)
             /\ ml_prediction.confidence[2] \in 0 .. 100

\* strings of the label encoder that the display table does not know
Unmapped == {LabelClasses[i] : i \in DOMAIN LabelClasses} \ {"AMAN", "HATI-HATI", "BAHAYA"}

\* C9 as the code has it: a result stored by a classification has, without a
\* label encoder, a label among Aman, Waspada, Bahaya, Unknown, Error; with a
\* label encoder its label is Aman, Waspada, Bahaya, Error or a decoded string
\* the display table does not know, verbatim; its confidence is absent or
\* within 0..100.
C9_LabelFromTableOrDecoder ==
    ml_prediction.status # "N/A"
    => /\ ml_prediction.status \in
             IF ml.encoder THEN (Labels \ {"Unknown"}) \cup Unmapped ELSE Labels
       /\ \/ ml_prediction.confidence = None
          \/ /\ IsNum(ml_prediction.confidence)
             /\ ml_prediction.confidence[2] \in 0 .. 100

\* a classification whose decoded string the display table does not know
\* has stored that string, with the confidence of predict_proba
C9_Witness ==
    /\ ml.encoder
    /\ ml.model = "proba"
    /\ ~ml_calls.thrown
    /\ ml_prediction.status \in Unmapped
    /\ ml_prediction.confidence = Num(100)

\* C10: with a scaler loaded, every classification hands the feature vector
\* (temperature, humidity, AQI) to the scaler exactly once, before inference,
\* and predict and predict_proba both get the scaled vector.
C10_ScalerAlwaysApplied ==
    [][(MLRuns /\ ml.scaler)
        => LET x == extract_sensor_values(Head(in_q).payload)
               X0 == [n |-> 0, v |-> <<x.suhu, x.lembab, x.local_aqi>>]
               calls == ml_calls'.calls
           IN  /\ Len(calls) >= 1
               /\ calls[1] = [op |-> "transform", x |-> X0]
               /\ \A i \in 2 .. Len(calls) :
                     /\ calls[i].op \in {"predict", "predict_proba"}
                     /\ calls[i].x = [n |-> 1, v |-> X0.v]
               /\ ~ml_calls'.thrown =>
                     /\ Len(calls) >= 2
                     /\ calls[2].op = "predict"
                     /\ (ml.model = "proba" => Len(calls) = 3 /\ calls[3].op = "predict_proba")]_vars

\* a classification with scaler and predict_proba has run to its end
C10_Witness ==
    /\ ml.scaler
    /\ ml.model = "proba"
    /\ ~ml_calls.thrown
    /\ Len(ml_calls.calls) = 3
    /\ ml_prediction.confidence # None

\* the tick takes the next item from the sensor-data queue
Drains == pc = "drain" /\ in_q # <<>> /\ in_q' = Tail(in_q)

\* C11: with no model loaded a drained message replaces the current reading,
\* is appended to the history window and has its alerts evaluated exactly
\* as with a model (what is stored depends on the message only), and the
\* stored prediction, the publisher and its publishes stay untouched.
C11_IngestionWithoutModel ==
    [][Drains
        => LET item == Head(in_q)
               data == item.payload
               x == extract_sensor_values(data)
           IN  /\ sensor_data' = data
               /\ last_update' = Ts(item.ts)
               /\ ~extract_throws(data) =>
                     /\ data_history'.suhu = deque_append(data_history.suhu, x.suhu)
                     /\ data_history'.lembab = deque_append(data_history.lembab, x.lembab)
                     /\ data_history'.aqi = deque_append(data_history.aqi, x.local_aqi)
                     /\ data_history'.time = deque_append(data_history.time, now)
               /\ (~extract_throws(data) /\ ~check_alerts_throws(data)) =>
                     alerts' = check_alerts(data)
               /\ ml = NoModel =>
                     /\ ml_prediction' = ml_prediction
                     /\ ml_calls' = ml_calls
                     /\ UNCHANGED pub]_vars

\* a session without a model has ingested two messages: reading, history
\* and alerts are set, no prediction was stored and nothing was published
C11_Witness ==
    /\ ml = NoModel
    /\ sensor_data = Alarming
    /\ Len(data_history.aqi) = 2
    /\ alerts = check_alerts(Alarming)
    /\ ml_prediction = [status |-> "N/A", confidence |-> None]
    /\ ml_calls = NoCalls
    /\ publisher = "none"
    /\ published = NothingPublished

\* C12: whenever a drained message is classified without an error, the
\* result is stored, a set_status command carrying it is published to the
\* command topic, and the result is then published to the prediction topic.
C12_PublishesToBothTopics ==
    [][(MLRuns /\ ~ml_calls'.thrown)
        => /\ ml_prediction'.status # "Error"
           /\ published'.n = published.n + 2
           /\ published'.last.topic = TOPIC_PREDICTION]_vars

\* C13: a send function returns True exactly when its publish did not throw
\* and False when something in its try block threw, and a send that threw
\* neither turns the prediction into an error nor ends the tick: the alerts
\* of the message are evaluated and the loop goes on.
C13_SendErrorsContained ==
    [][/\ published' # published => (sent_ok' /\ published'.n = published.n + 1)
       /\ (published' = published /\ sent_ok' # sent_ok) => ~sent_ok'
       /\ (MLRuns /\ ~ml_calls'.thrown)
             => /\ sent_ok' <=> (published'.n = published.n + 1)
                /\ ml_prediction'.status # "Error"
                /\ pc' = "drain"
                /\ ~check_alerts_throws(Head(in_q).payload)
                      => /\ alerts' = check_alerts(Head(in_q).payload)
                         /\ data_received'
       /\ pc = "render" => pc' \in {"render", "idle"}]_vars

\* a classification succeeded and its send threw: nothing was published,
\* the prediction is stored, the alerts are set and the tick is in its loop
C13_Witness ==
    /\ faulty
    /\ ml = PlainModel
    /\ pc = "drain"
    /\ ~ml_calls.thrown
    /\ ml_prediction.status \in {"Aman", "Waspada", "Bahaya", "Unknown"}
    /\ published = NothingPublished
    /\ ~sent_ok
    /\ alerts = check_alerts(Alarming)
    /\ data_received
    /\ in_q # <<>>

\* the handler of a pressed button publishes its command
CommandSent == Render /\ published'.n = published.n + 1

\* the tick classifies the next item and publishes the prediction
PredictionSent == DrainItem /\ published'.n = published.n + 1

\* C14: a publish never waits for the subscriber connection: whatever the
\* worker is doing (connecting, in a session, disconnected, sleeping before
\* the next attempt), a script run that is about to send a command, or a
\* tick that is about to classify a message, can complete its publish.
C14_PublishNeverWaits ==
    /\ (pc = "render" /\ clicks # {} /\ published.n < MaxPublished) => ENABLED CommandSent
    /\ (pc = "drain" /\ in_q # <<>> /\ ml_model_is_not_None
          /\ ~check_alerts_throws(Head(in_q).payload)) => ENABLED PredictionSent

\* the worker sleeps between two attempts, having no session, while the
\* script run reaches the button handlers and can publish a command
C14_Witness ==
    /\ pc = "render"
    /\ clicks # {}
    /\ wpc = "sleep"
    /\ link = "down"
    /\ ~mqtt_connected
    /\ published.n < MaxPublished
    /\ ENABLED CommandSent

\* the alert list a holds an alert of this severity and kind
Has(a, severity, kind) == \E i \in DOMAIN a : a[i] = <<severity, kind>>

\* C15: for every payload with numeric fields that the tick hands to
\* check_alerts, the stored alerts hold a danger alert iff local_aqi > 200,
\* an AQI warning iff 100 < local_aqi <= 200, an info alert iff
\* weather_aqi > 100, a temperature warning iff suhu > 35, a high-humidity
\* warning iff lembab > 80, a low-humidity warning iff lembab < 30, each at
\* most once and nothing else; {local_aqi: 250, suhu: 36, lembab: 85}
\* gives danger(AQI), warning(temperature), warning(humidity) in this
\* order and {local_aqi: 40, suhu: 22, lembab: 50} gives no alert.
C15_AlertThresholds ==
    /\ check_alerts(Flat(Num(36), Num(85), Num(250), Absent))
          = << <<"danger", "aqi">>, <<"warning", "suhu">>, <<"warning", "lembab_high">> >>
    /\ check_alerts(Flat(Num(22), Num(50), Num(40), Absent)) = << >>
    /\ [][(Drains /\ ~check_alerts_throws(Head(in_q).payload))
           => LET data == Head(in_q).payload
                  aqi == Get(data.local_aqi, Num(0))[2]
                  weather == Get(data.weather_aqi, Num(0))[2]
                  temperature == Get(data.suhu, Num(0))[2]
                  humidity == Get(data.lembab, Num(0))[2]
                  a == alerts'
              IN  /\ Has(a, "danger", "aqi") <=> aqi > 200
                  /\ Has(a, "warning", "aqi") <=> (100 < aqi /\ aqi <= 200)
                  /\ Has(a, "info", "weather_aqi") <=> weather > 100
                  /\ Has(a, "warning", "suhu") <=> temperature > 35
                  /\ Has(a, "warning", "lembab_high") <=> humidity > 80
                  /\ Has(a, "warning", "lembab_low") <=> humidity < 30
                  /\ \A i \in DOMAIN a :
                        a[i] \in {<<"danger", "aqi">>, <<"warning", "aqi">>,
                                  <<"info", "weather_aqi">>, <<"warning", "suhu">>,
                                  <<"warning", "lembab_high">>, <<"warning", "lembab_low">>}
                  /\ \A i, j \in DOMAIN a : a[i] = a[j] => i = j]_vars

\* a reading on the limits (AQI 200, weather-AQI 100, 35 degrees, 30 percent)
\* was evaluated: only the AQI warning is active
C15_Witness ==
    /\ sensor_data = Flat(Num(35), Num(30), Num(200), Num(100))
    /\ alerts = << <<"warning", "aqi">> >>

\* the last entry of a history series
Last(d) == d[Len(d)]

\* C16: for every flat payload P the tick ingests, the temperature and
\* humidity it extracts and appends to the history are those that
\* extract_sensor_values gives for the legacy shape of P.
C16_FormatRoundTrip ==
    [][(Drains /\ Head(in_q).payload.dict /\ ~Head(in_q).payload.environment.present)
        => LET P == Head(in_q).payload
               wrapped == extract_sensor_values(legacy_wrap(P))
           IN  /\ Last(data_history'.suhu) = wrapped.suhu
               /\ Last(data_history'.lembab) = wrapped.lembab
               /\ extract_sensor_values(P).suhu = wrapped.suhu
               /\ extract_sensor_values(P).lembab = wrapped.lembab]_vars

\* a payload was ingested in its flat and then in its legacy shape: both
\* history entries carry the same temperature and humidity
C16_Witness ==
    /\ sensor_data = legacy_wrap(Alarming)
    /\ Len(data_history.suhu) = 2
    /\ data_history.suhu = <<Num(36), Num(36)>>
    /\ data_history.lembab = <<Num(85), Num(85)>>

\* C17: for temperature and humidity the flat field is used whenever it is
\* present, the nested environment value only when the flat field is
\* absent, and zero when both are absent.
C17_FlatFieldFirst ==
    [][(Drains /\ Head(in_q).payload.dict)
        => LET P == Head(in_q).payload
               env == P.environment
           IN  /\ Last(data_history'.suhu) =
                     IF P.suhu # Absent THEN P.suhu
                     ELSE IF env.present /\ env.temp # Absent THEN env.temp
                     ELSE Num(0)
               /\ Last(data_history'.lembab) =
                     IF P.lembab # Absent THEN P.lembab
                     ELSE IF env.present /\ env.humid # Absent THEN env.humid
                     ELSE Num(0)]_vars

\* the series e is the series d after one append to a deque of maxlen entries
GrownByOne(d, e) ==
    IF Len(d) = maxlen
    THEN Len(e) = maxlen /\ \A i \in 1 .. maxlen - 1 : e[i] = d[i + 1]
    ELSE Len(e) = Len(d) + 1 /\ \A i \in 1 .. Len(d) : e[i] = d[i]

\* C18: every sensor message the tick drains replaces the current reading
\* by its payload and makes each history series grow by exactly one entry,
\* evicting the oldest entry of a full series.
C18_EveryMessageIngested ==
    [][Drains
        => /\ sensor_data' = Head(in_q).payload
           /\ GrownByOne(data_history.time, data_history'.time)
           /\ GrownByOne(data_history.suhu, data_history'.suhu)
           /\ GrownByOne(data_history.lembab, data_history'.lembab)
           /\ GrownByOne(data_history.aqi, data_history'.aqi)]_vars

\* process_device_responses takes the next item from the response queue
DrainsResponse == pc = "responses" /\ response_q # <<>> /\ response_q' = Tail(response_q)

\* C19: process_device_responses returns only when the response queue is
\* empty; every item it takes, in queue order, becomes the stored last
\* device response, so on return the stored response is the last one drained
\* (the most recently enqueued of them); it changes in no other step, and a
\* drained item is kept nowhere else.
C19_LastResponseKept ==
    [][/\ DrainsResponse
          => /\ last_device_response' = Head(response_q)
             /\ UNCHANGED <<tickstate, in_q, pub, mqtt_connected>>
       /\ (pc = "responses" /\ pc' # "responses")
          => /\ response_q = <<>>
             /\ response_q' = <<>>
             /\ last_device_response' = last_device_response
       /\ last_device_response' # last_device_response => DrainsResponse]_vars

\* both acknowledgements were delivered: process_device_responses has stored
\* the first one and the second one is still queued
C19_Witness ==
    /\ pc = "responses"
    /\ nmsgs = 0
    /\ last_device_response.payload = Ack("calibrated")
    /\ Len(response_q) = 1
    /\ Head(response_q).payload = Ack("city_set")

\* the script thread is scheduled while a tick runs, and the broker delivers
\* a bounded number of messages: the tick's loop and its end are taken
FairTick ==
    /\ InitAt(StartNoon, {NoModel}, {{Calm, Alarming}}, EmptyHistory, MaxMsgs, 1)
    /\ [][Next]_vars
    /\ WF_vars(DrainItem)
    /\ WF_vars(TickFinish)

\* C20: the sensor-data queue changes only by a callback appending one item
\* behind those queued or by the tick taking and processing the item at the
\* front, so every enqueued message is consumed once and in order; a tick
\* returns only when the queue is empty, and every tick returns.
C20_ChannelDelivery ==
    /\ [][in_q' # in_q
           => \/ /\ Len(in_q') = Len(in_q) + 1
                 /\ SubSeq(in_q', 1, Len(in_q)) = in_q
                 /\ Last(in_q').payload \in wire
                 /\ UNCHANGED <<tickstate, pc>>
              \/ /\ Drains
                 /\ sensor_data' = Head(in_q).payload
                 /\ last_update' = Ts(Head(in_q).ts)]_vars
    /\ [][TickReturns => (in_q = <<>> /\ in_q' = <<>>)]_vars
    /\ (pc = "drain" ~> pc = "responses")

\* the tick has consumed the first message while the second one, enqueued
\* behind it, waits at the front of the queue
C20_Witness ==
    /\ pc = "drain"
    /\ drained
    /\ sensor_data = Calm
    /\ data_history.aqi = <<Num(40)>>
    /\ Len(in_q) = 1
    /\ Head(in_q).payload = Alarming

\* C21: whenever the worker leaves Connected or Connecting through a failure
\* (client.connect raising, a rejected handshake, a lost session,
\* loop_forever raising or returning), its next connect attempt comes after
\* the time.sleep(3) of the except branch: control reaches client.connect
\* again only from the sleep, and a new handshake is only ever started by
\* client.connect.
C21_BackoffBeforeConnect ==
    [][/\ (wpc # "connect" /\ wpc' = "connect") => wpc = "sleep"
       /\ (link # "handshake" /\ link' = "handshake") => wpc = "connect"]_vars

\* C22: the worker writes the connected flag on each of its transitions:
\* true when a handshake succeeds, false when a handshake is rejected, when
\* the disconnect callback runs and when the loop's except branch catches
\* an exception; it leaves Connected only with a write of false and never
\* writes true outside Connected, so while it is Disconnected or Connecting
\* the last value it wrote is false.
C22_FlagFollowsWorker ==
    [][/\ (link = "handshake" /\ link' = "up") => mqtt_connected'
       /\ (link = "handshake" /\ link' = "rejected") => ~mqtt_connected'
       /\ (wpc = "loop" /\ wpc' = "loop" /\ link # "down" /\ link' = "down") => ~mqtt_connected'
       /\ (wpc # "sleep" /\ wpc' = "sleep") => ~mqtt_connected'
       /\ (Connected /\ ~Connected') => ~mqtt_connected'
       /\ (CallbackStep /\ ~Connected') => (mqtt_connected' => mqtt_connected)]_vars

\* after a session in which a message was ingested (the tick had set the
\* flag), the broker has rejected the next handshake: the flag is false
C22_Witness ==
    /\ wpc = "loop"
    /\ link = "rejected"
    /\ last_update # Never
    /\ ~mqtt_connected

\* C23: a drained message whose reading the evaluator can evaluate leaves
\* the alert set equal to the evaluator's output for it, and a tick that
\* drained messages returns with the alert set equal to the evaluation of
\* the current reading, the last one drained.
C23_AlertsSupersede ==
    [][/\ (Drains /\ ~check_alerts_throws(Head(in_q).payload))
             => alerts' = check_alerts(Head(in_q).payload)
       /\ (TickReturns /\ drained /\ ~check_alerts_throws(sensor_data))
             => alerts' = check_alerts(sensor_data)]_vars

\* the place of an alert in the order of the rules: AQI, weather AQI,
\* temperature, humidity
Rank(alert) ==
    CASE alert[2] = "aqi" -> 1
      [] alert[2] = "weather_aqi" -> 2
      [] alert[2] = "suhu" -> 3
      [] OTHER -> 4

\* the alerts of a stand in the order of the rules, one per rule at most
InRuleOrder(a) == \A i, j \in DOMAIN a : i < j => Rank(a[i]) < Rank(a[j])

\* the numbers of alerts the evaluator gives for the threshold readings
AlertCounts == {Len(check_alerts(d)) : d \in ThresholdReadings}

\* the evaluator keeps the order of the rules for every threshold reading
RuleOrderKept == \A d \in ThresholdReadings : InRuleOrder(check_alerts(d))

\* C24 as stated: the alert list is in the order AQI alert, weather-AQI
\* info, temperature warning, humidity warning, it holds 0 to 5 alerts, and
\* some reading produces 5 alerts at once.
C24_UpToFiveAlerts ==
    /\ InRuleOrder(alerts)
    /\ Len(alerts) \in 0 .. 5
    /\ 5 \in AlertCounts

\* C24 amended: the alert list is in the order AQI alert, weather-AQI info,
\* temperature warning, humidity warning with at most one alert of each of
\* the four groups, so it holds 0 to 4 alerts; some reading produces none
\* and some reading produces 4 at once.
C24_UpToFourAlerts ==
    /\ InRuleOrder(alerts)
    /\ Len(alerts) \in 0 .. 4
    /\ RuleOrderKept
    /\ AlertCounts = 0 .. 4

\* a reading over every limit was evaluated: danger, info, temperature and
\* high-humidity warning are active together
C24_Witness ==
    /\ sensor_data = Flat(Num(36), Num(81), Num(201), Num(101))
    /\ alerts = << <<"danger", "aqi">>, <<"info", "weather_aqi">>,
                   <<"warning", "suhu">>, <<"warning", "lembab_high">> >>

\* the loop body runs to its end for this payload
Sound(data) ==
    /\ ~extract_throws(data)
    /\ ~sensor_data_log_throws(extract_sensor_values(data).suhu,
                               extract_sensor_values(data).lembab,
                               extract_sensor_values(data).local_aqi)
    /\ ~check_alerts_throws(data)

\* the field, or the default 0 of data.get when the key is missing
OrZero(v) == IF v = Absent THEN Num(0) ELSE v

\* C25: a drained message never ends the tick: whatever its payload, the
\* tick stays in its loop and can take the next queued item, and it returns
\* only with the queue empty; a missing temperature, humidity or AQI field of
\* a flat payload is stored as 0; a sound message is applied in full also
\* after a defective one.
C25_PayloadErrorsContained ==
    /\ []((pc = "drain" /\ in_q # <<>>) => ENABLED DrainItem)
    /\ [][/\ Drains
             => LET data == Head(in_q).payload
                IN  /\ pc' = "drain"
                    /\ (data.dict /\ ~data.environment.present)
                          => /\ Last(data_history'.suhu) = OrZero(data.suhu)
                             /\ Last(data_history'.lembab) = OrZero(data.lembab)
                             /\ Last(data_history'.aqi) = OrZero(data.local_aqi)
                    /\ Sound(data)
                          => /\ sensor_data' = data
                             /\ alerts' = check_alerts(data)
                             /\ data_received'
          /\ TickReturns => (in_q = <<>> /\ in_q' = <<>>)]_vars

\* the tick has taken a payload whose processing threw (the reading is
\* replaced) and is in its loop with a sound message queued behind it
C25_Witness ==
    /\ pc = "drain"
    /\ drained
    /\ sensor_data \in {NullSuhu, NullTemp, NotADict, BadWeather}
    /\ Len(in_q) = 1
    /\ Head(in_q).payload = Alarming

\* C26: a drained item whose processing throws (in the extraction, in the
\* logging or in the alert evaluation) leaves the current reading, the
\* last-update time, the history window and the alert set as they were.
C26_AllOrNothing ==
    [][(Drains /\ ~Sound(Head(in_q).payload))
        => UNCHANGED <<sensor_data, last_update, data_history, alerts>>]_vars

\* C27: the elapsed time the staleness check computes is the real time
\* between the receipt of the last message and the tick (up to the fraction
\* of a second that the HH:MM:SS string drops), also when receipt and tick
\* lie on different calendar days; so a tick that returns more than 30
\* seconds after the receipt returns with the flag false.
C27_ElapsedIsRealTime ==
    [][(TickReturns /\ last_update # Never)
        => LET computed == time_diff(now, last_update[2])
               real == now - last_update_at
           IN  /\ computed - real \in 0 .. UnitsPerSecond - 1
               /\ real > StaleUnits => ~mqtt_connected']_vars

\* C28: for every message the tick processes to the end, the temperature
\* and humidity alerts it stores are those the thresholds give for the
\* temperature and humidity that extract_sensor_values returned for it (the
\* values appended to the history), legacy payloads included.
C28_AlertsOnExtractedValues ==
    [][(Drains /\ Sound(Head(in_q).payload))
        => LET x == extract_sensor_values(Head(in_q).payload)
           IN  /\ x.suhu = Last(data_history'.suhu)
               /\ x.lembab = Last(data_history'.lembab)
               /\ Has(alerts', "warning", "suhu") <=> x.suhu[2] > 35
               /\ Has(alerts', "warning", "lembab_high") <=> x.lembab[2] > 80
               /\ Has(alerts', "warning", "lembab_low") <=> x.lembab[2] < 30]_vars

\* C29: the publisher's client is built, and its connect attempted, at most
\* once: once cached it is never replaced, a client whose connect failed
\* stays unconnected (no later connect, no network loop), every publish
\* goes through the cached client, and a send whose publish did not throw
\* returns True whether or not the client is connected.
C29_PublisherCachedOnce ==
    [][/\ publisher # "none" => publisher' = publisher
       /\ publisher' # publisher => pc \in {"drain", "render"}
       /\ published' # published
             => /\ publisher' \in {"started", "unconnected"}
                /\ published'.n = published.n + 1
                /\ sent_ok']_vars

\* two sends went through the one cached client whose connect had failed,
\* and the last send returned True
C29_Witness ==
    /\ publisher = "unconnected"
    /\ published.n >= 2
    /\ sent_ok

\* C30: whenever the header reads the flag after a tick while the last
\* update is more than 30 seconds old, it reads false and shows OFFLINE,
\* whatever callbacks of the worker ran in between.
C30_NoStaleOnline ==
    [][(pc = "render" /\ pc' = "idle" /\ last_update # Never
          /\ now - last_update_at > StaleUnits)
        => status_text = "OFFLINE"]_vars


=============================================================================
